---------------------------- MODULE Spec2Model ----------------------------
(***************************************************************************)
(* Model of twitter_img_alt.py: the Mentions poller (class Mentions), the  *)
(* status file it keeps its since_id cursor in, and the __main__ loop that *)
(* consumes Mentions.stream().                                             *)
(*                                                                         *)
(* One process runs at a time.  pc is the position of that process:        *)
(*   "start"    no process; the next step constructs Mentions (line 271)   *)
(*   "fetch"    line 109, about to call rawGetNewMentions                  *)
(*   "sleep"    line 111                                                   *)
(*   "next"     line 112, the head of the for loop over the batch          *)
(*   "open"     line 85, about to open the status file for writing         *)
(*   "dump"     line 86, file opened (truncated), about to json.dump       *)
(*   "consume"  line 115 has yielded; the __main__ loop body (272-284)     *)
(*              holds the mention and has not run yet                      *)
(*   "dead"     an exception left the program; the process has ended       *)
(***************************************************************************)
EXTENDS Integers, Sequences, FiniteSets

\* Largest tweet identifier the model lets the service hand out.
MaxId == 3

\* Cap on the size of one batch; stands for count=200 (line 100).
MaxCount == 2

\* Largest since_id the status file may hold before the first run.
MaxStored == 1

\* since_id = None (line 62), and a record with no since_id key.
NoId == 0

VARIABLES
    latest,          \* the service holds the mentions 1..latest
    file,            \* the status file on disk
    arg_since_id,    \* since_id argument of Mentions.__init__
    arg_status_file, \* TRUE: status_file names a file; FALSE: status_file=None
    pc,
    since_id,        \* self.since_id
    status,          \* self.status
    mentions,        \* the sorted batch (line 109)
    idx,             \* position of the for loop in mentions (0: before the first)
    batch,           \* history: the identifiers the last fetch returned
    out,             \* history: the mentions yielded from the current batch
    result,          \* history: how the last run of the loop body ended
    err,             \* history: what ended the process ("none" while it runs)
    fetched,         \* history: every identifier a fetch has returned
    handled,         \* history: every identifier the loop body has run for
    hw,              \* history: largest self.since_id any process has held
    hwFile,          \* history: largest since_id a complete status file has held
    file0,           \* history: the status file before the first run
    saved,           \* history: the values given to the cursor store, in order
    texts,           \* the annotations argument of annotationsToStatuses
    maxlen,          \* its maxlen argument
    annotations,     \* its local annotations (rebound at line 184)
    ai,              \* how many annotations the for loop of line 190 has taken
    annot,           \* its local annot
    statuses,        \* its local result
    seps,            \* history: per chunk, the characters the split after it consumed
    at,              \* position in annotationsToStatuses ("idle": not in use)
    media,           \* toAnnotate.media, the argument of createAnnotations
    mention,         \* id of the mention annotateTweet was called for
    respondToTweet,  \* id of annotateTweet's local respondToTweet
    replies,         \* the replies twitterApi.PostUpdate has posted, in order
    rat              \* position in annotateTweet ("idle": not in use)

vars == <<latest, file, arg_since_id, arg_status_file, pc, since_id, status,
          mentions, idx, batch, out, result, err, fetched, handled, hw, hwFile,
          file0, saved, texts, maxlen, annotations, ai, annot, statuses, seps,
          at, media, mention, respondToTweet, replies, rat>>

\* The variables the poller and the __main__ loop do not touch.
chunkVars == <<texts, maxlen, annotations, ai, annot, statuses, seps, at>>

replyVars == <<media, mention, respondToTweet, replies, rat>>

toolVars == <<saved, chunkVars, replyVars>>

Max2(a, b) == IF a >= b THEN a ELSE b

RECURSIVE SetMax(_)
SetMax(S) ==
    IF S = {} THEN NoId
    ELSE LET x == CHOOSE y \in S : TRUE
         IN  Max2(x, SetMax(S \ {x}))

Range(s) == {s[i] : i \in 1..Len(s)}

(***************************************************************************)
(* A Python dict, and a JSON object, is a sequence of <<key, value>>       *)
(* members in insertion order.                                             *)
(***************************************************************************)
HasKey(d, k) == \E i \in 1..Len(d) : d[i][1] = k

\* d[k]; NoId stands for the KeyError of line 79, which leaves since_id None.
DictGet(d, k) ==
    IF HasKey(d, k)
    THEN d[CHOOSE i \in 1..Len(d) : d[i][1] = k][2]
    ELSE NoId

\* d[k] = v: an existing key keeps its place, a new key goes last.
DictSet(d, k, v) ==
    IF HasKey(d, k)
    THEN [i \in 1..Len(d) |-> IF d[i][1] = k THEN <<k, v>> ELSE d[i]]
    ELSE Append(d, <<k, v>>)

\* json.load (line 76): the members in order, a repeated key keeping its
\* first place and its last value.
RECURSIVE JsonLoadFrom(_, _)
JsonLoadFrom(members, d) ==
    IF members = <<>> THEN d
    ELSE JsonLoadFrom(Tail(members), DictSet(d, Head(members)[1], Head(members)[2]))

JsonLoad(members) == JsonLoadFrom(members, <<>>)

\* json.dump (line 86): the dict's members in insertion order.
JsonDump(d) == [i \in 1..Len(d) |-> <<d[i][1], d[i][2]>>]

\* The members of a record other than since_id.
Others(members) == SelectSeq(members, LAMBDA p : p[1] # "since_id")

Missing == [kind |-> "missing", members |-> <<>>]
Empty == [kind |-> "empty", members |-> <<>>]
Json(members) == [kind |-> "json", members |-> members]

\* The since_id a complete status file holds (NoId: none).
FileSinceId(f) == IF f.kind = "json" THEN DictGet(f.members, "since_id") ELSE NoId

\* The status files a first run may find.
InitFiles ==
    {Missing, Json(<<>>), Json(<< <<"x", 1>> >>)}
    \cup {Json(<< <<"since_id", c>> >>) : c \in 1..MaxStored}
    \cup {Json(<< <<"since_id", c>>, <<"x", 1>> >>) : c \in 1..MaxStored}
    \cup {Json(<< <<"x", 1>>, <<"since_id", c>> >>) : c \in 1..MaxStored}

(***************************************************************************)
(* twitterApi.GetMentions(count=200, since_id=self.since_id): any set of   *)
(* at most count mentions newer than since_id (all of them when since_id   *)
(* is None), in any order.                                                 *)
(***************************************************************************)
rawGetNewMentionsAll(sid, n) ==
    {S \in SUBSET (1..n) : Cardinality(S) <= MaxCount}

rawGetNewMentions(sid, n) ==
    {S \in SUBSET {m \in 1..n : m > sid} : Cardinality(S) <= MaxCount}

\* The orders in which the API may return the set S.
Orders(S) ==
    {s \in [1..Cardinality(S) -> S] : \A i, j \in 1..Cardinality(S) : s[i] = s[j] => i = j}

\* sorted(..., key = lambda x: x.id) (line 109), as an insertion sort.
RECURSIVE Insert(_, _)
Insert(x, s) ==
    IF s = <<>> THEN <<x>>
    ELSE IF x < Head(s) THEN <<x>> \o s
    ELSE <<Head(s)>> \o Insert(x, Tail(s))

RECURSIVE SortAscending(_)
SortAscending(s) ==
    IF s = <<>> THEN <<>> ELSE Insert(Head(s), SortAscending(Tail(s)))

Reverse(s) == [i \in 1..Len(s) |-> s[Len(s) + 1 - i]]

SortDescending(s) == Reverse(SortAscending(s))

Unsorted(s) == s

SortById(s) == SortAscending(s)

\* Line 83: self.status['since_id'] = self.since_id.
StaleStatus(st, sid) == st

UpdatedStatus(st, sid) == DictSet(st, "since_id", sid)

\* Lines 272-284: how one run of the loop body may end.
Outcomes == {"self", "nothing", "done", "failed"}

\* Where the program goes after the loop body: the except clause (283) takes
\* every failure, so the for loop asks the generator for the next mention.
PropagateFailure(outcome) == IF outcome = "failed" THEN "dead" ELSE "next"

AfterPipeline(outcome) == "next"

Live == pc \notin {"start", "dead"}

\* Nothing but the poller is in use.
ChunkerIdle ==
    /\ texts = <<>>
    /\ maxlen = 0
    /\ annotations = <<>>
    /\ ai = 0
    /\ annot = <<>>
    /\ statuses = <<>>
    /\ seps = <<>>
    /\ at = "idle"

\* toAnnotate.media is None.
NoMedia == [has |-> FALSE, items |-> <<>>]

ReplierIdle ==
    /\ media = NoMedia
    /\ mention = NoId
    /\ respondToTweet = NoId
    /\ replies = <<>>
    /\ rat = "idle"

ToolsIdle ==
    /\ saved = <<>>
    /\ ChunkerIdle
    /\ ReplierIdle

NoProcess ==
    /\ since_id' = NoId
    /\ status' = <<>>
    /\ mentions' = <<>>
    /\ idx' = 0
    /\ batch' = {}
    /\ out' = <<>>

Init ==
    /\ latest = 0
    /\ file \in InitFiles
    /\ file0 = file
    /\ arg_since_id = NoId
    /\ arg_status_file = TRUE
    /\ pc = "start"
    /\ since_id = NoId
    /\ status = <<>>
    /\ mentions = <<>>
    /\ idx = 0
    /\ batch = {}
    /\ out = <<>>
    /\ result = "none"
    /\ err = "none"
    /\ fetched = {}
    /\ handled = {}
    /\ hw = NoId
    /\ hwFile = FileSinceId(file)
    /\ ToolsIdle

\* Mentions may also be constructed with an explicit since_id, and with
\* status_file=None (line 62).
InitArgs ==
    /\ latest = 0
    /\ file \in InitFiles
    /\ file0 = file
    /\ arg_since_id \in 0..MaxStored
    /\ arg_status_file \in BOOLEAN
    /\ pc = "start"
    /\ since_id = NoId
    /\ status = <<>>
    /\ mentions = <<>>
    /\ idx = 0
    /\ batch = {}
    /\ out = <<>>
    /\ result = "none"
    /\ err = "none"
    /\ fetched = {}
    /\ handled = {}
    /\ hw = NoId
    /\ hwFile = FileSinceId(file)
    /\ ToolsIdle

\* Someone mentions the account: the service gives the tweet the next identifier.
Arrive ==
    /\ latest < MaxId
    /\ latest' = latest + 1
    /\ UNCHANGED <<file, arg_since_id, arg_status_file, pc, since_id, status,
                   mentions, idx, batch, out, result, err, fetched, handled,
                   hw, hwFile, file0>>
    /\ UNCHANGED toolVars

\* Mentions.__init__ (62-80) and the call of stream() (271).
Construct ==
    /\ pc = "start"
    /\ IF arg_since_id = NoId /\ arg_status_file
       THEN IF file.kind = "json"
            THEN /\ status' = JsonLoad(file.members)
                 /\ since_id' = DictGet(JsonLoad(file.members), "since_id")
                 /\ pc' = "fetch"
                 /\ err' = "none"
            ELSE \* open (75) or json.load (76) raises
                 /\ status' = <<>>
                 /\ since_id' = NoId
                 /\ pc' = "dead"
                 /\ err' = "load"
       ELSE /\ status' = <<>>
            /\ since_id' = arg_since_id
            /\ pc' = "fetch"
            /\ err' = "none"
    /\ hw' = Max2(hw, since_id')
    /\ UNCHANGED <<latest, file, arg_since_id, arg_status_file, mentions, idx,
                   batch, out, result, fetched, handled, hwFile, file0>>
    /\ UNCHANGED toolVars

\* Line 109: the fetch and the sort.
Fetch ==
    /\ pc = "fetch"
    /\ \E S \in rawGetNewMentions(since_id, latest) :
         \E raw \in Orders(S) :
            /\ mentions' = SortById(raw)
            /\ batch' = S
            /\ fetched' = fetched \cup S
            /\ pc' = IF Len(raw) = 0 THEN "sleep" ELSE "next"
    /\ idx' = 0
    /\ out' = <<>>
    /\ UNCHANGED <<latest, file, arg_since_id, arg_status_file, since_id,
                   status, result, err, handled, hw, hwFile, file0>>
    /\ UNCHANGED toolVars

\* Line 109: GetMentions raises; nothing in stream() or __main__ catches it.
FetchFails ==
    /\ pc = "fetch"
    /\ pc' = "dead"
    /\ err' = "fetch"
    /\ UNCHANGED <<latest, file, arg_since_id, arg_status_file, since_id,
                   status, mentions, idx, batch, out, result, fetched, handled,
                   hw, hwFile, file0>>
    /\ UNCHANGED toolVars

\* Lines 110-112: the sleep after an empty batch, then the empty for loop.
Sleep ==
    /\ pc = "sleep"
    /\ pc' = "fetch"
    /\ UNCHANGED <<latest, file, arg_since_id, arg_status_file, since_id,
                   status, mentions, idx, batch, out, result, err, fetched,
                   handled, hw, hwFile, file0>>
    /\ UNCHANGED toolVars

\* Lines 112-113 and 83-84: the for loop takes the next mention of the batch,
\* sets the cursor and the in-memory record; past the last one it goes back to
\* line 109 (mentions is rebound there before it is read again).
NextMention ==
    /\ pc = "next"
    /\ IF idx < Len(mentions)
       THEN /\ idx' = idx + 1
            /\ since_id' = mentions[idx + 1]
            /\ status' = UpdatedStatus(status, mentions[idx + 1])
            /\ hw' = Max2(hw, mentions[idx + 1])
            /\ IF arg_status_file
               THEN pc' = "open" /\ out' = out
               ELSE pc' = "consume" /\ out' = Append(out, mentions[idx + 1])
            /\ UNCHANGED <<mentions, batch>>
       ELSE /\ pc' = "fetch"
            /\ mentions' = <<>>
            /\ idx' = 0
            /\ batch' = {}
            /\ out' = <<>>
            /\ UNCHANGED <<since_id, status, hw>>
    /\ UNCHANGED <<latest, file, arg_since_id, arg_status_file, result, err,
                   fetched, handled, hwFile, file0>>
    /\ UNCHANGED toolVars

\* Line 85: open(self.status_file, 'w') creates or truncates the file.
Open ==
    /\ pc = "open"
    /\ file' = Empty
    /\ pc' = "dump"
    /\ UNCHANGED <<latest, arg_since_id, arg_status_file, since_id, status,
                   mentions, idx, batch, out, result, err, fetched, handled,
                   hw, hwFile, file0>>
    /\ UNCHANGED toolVars

\* Line 85: open raises (the file cannot be written); the file is untouched.
OpenFails ==
    /\ pc = "open"
    /\ pc' = "dead"
    /\ err' = "save"
    /\ UNCHANGED <<latest, file, arg_since_id, arg_status_file, since_id,
                   status, mentions, idx, batch, out, result, fetched, handled,
                   hw, hwFile, file0>>
    /\ UNCHANGED toolVars

\* Line 86 and the end of the with block, then the yield of line 115.
Dump ==
    /\ pc = "dump"
    /\ file' = Json(JsonDump(status))
    /\ hwFile' = Max2(hwFile, FileSinceId(file'))
    /\ out' = Append(out, mentions[idx])
    /\ pc' = "consume"
    /\ UNCHANGED <<latest, arg_since_id, arg_status_file, since_id, status,
                   mentions, idx, batch, result, err, fetched, handled, hw,
                   file0>>
    /\ UNCHANGED toolVars

\* Line 86: the write raises (the disk is full); the file stays truncated.
DumpFails ==
    /\ pc = "dump"
    /\ pc' = "dead"
    /\ err' = "save"
    /\ UNCHANGED <<latest, file, arg_since_id, arg_status_file, since_id,
                   status, mentions, idx, batch, out, result, fetched, handled,
                   hw, hwFile, file0>>
    /\ UNCHANGED toolVars

\* Lines 272-284: the loop body runs for the yielded mention; then the for
\* loop resumes the generator after its yield.
Process ==
    /\ pc = "consume"
    /\ \E outcome \in Outcomes :
         /\ result' = outcome
         /\ pc' = AfterPipeline(outcome)
         /\ err' = IF AfterPipeline(outcome) = "dead" THEN "pipeline" ELSE err
    /\ handled' = handled \cup {mentions[idx]}
    /\ UNCHANGED <<latest, file, arg_since_id, arg_status_file, since_id,
                   status, mentions, idx, batch, out, fetched, hw, hwFile,
                   file0>>
    /\ UNCHANGED toolVars

\* The process is killed, or the machine goes down: memory is lost, the file
\* stays as it is.
Crash ==
    /\ Live
    /\ pc' = "start"
    /\ NoProcess
    /\ UNCHANGED <<latest, file, arg_since_id, arg_status_file, result, err,
                   fetched, handled, hw, hwFile, file0>>
    /\ UNCHANGED toolVars

\* The program that ended with an exception is started again.
Relaunch ==
    /\ pc = "dead"
    /\ pc' = "start"
    /\ NoProcess
    /\ UNCHANGED <<latest, file, arg_since_id, arg_status_file, result, err,
                   fetched, handled, hw, hwFile, file0>>
    /\ UNCHANGED toolVars

Next ==
    \/ Arrive
    \/ Construct
    \/ Fetch
    \/ FetchFails
    \/ Sleep
    \/ NextMention
    \/ Open
    \/ OpenFails
    \/ Dump
    \/ DumpFails
    \/ Process
    \/ Crash
    \/ Relaunch

\* The program as __main__ runs it: Mentions(twitterApi) (line 271).
Spec == Init /\ [][Next]_vars

\* Mentions constructed with any arguments.
SpecArgs == InitArgs /\ [][Next]_vars

(***************************************************************************)
(* The cursor store on its own: a caller sets self.since_id and calls      *)
(* _maybeUpdateStatusFile (lines 82-86), with any values in any order.     *)
(***************************************************************************)

\* Number of saves the model follows.
MaxSaves == 3

\* A Mentions constructed from an existing status file (lines 62-80).
InitStore ==
    /\ latest = 0
    /\ file \in {f \in InitFiles : f.kind = "json"}
    /\ file0 = file
    /\ arg_since_id = NoId
    /\ arg_status_file = TRUE
    /\ pc = "store"
    /\ status = JsonLoad(file.members)
    /\ since_id = DictGet(JsonLoad(file.members), "since_id")
    /\ mentions = <<>>
    /\ idx = 0
    /\ batch = {}
    /\ out = <<>>
    /\ result = "none"
    /\ err = "none"
    /\ fetched = {}
    /\ handled = {}
    /\ hw = since_id
    /\ hwFile = FileSinceId(file)
    /\ ToolsIdle

\* self.since_id = v, then _maybeUpdateStatusFile() (lines 83-86).
SaveCursor ==
    /\ pc = "store"
    /\ Len(saved) < MaxSaves
    /\ \E v \in 1..MaxId :
         /\ since_id' = v
         /\ status' = UpdatedStatus(status, v)
         /\ file' = Json(JsonDump(UpdatedStatus(status, v)))
         /\ saved' = Append(saved, v)
         /\ hw' = Max2(hw, v)
         /\ hwFile' = Max2(hwFile, v)
    /\ UNCHANGED <<latest, arg_since_id, arg_status_file, pc, mentions, idx,
                   batch, out, result, err, fetched, handled, file0>>
    /\ UNCHANGED chunkVars
    /\ UNCHANGED replyVars

NextStore == SaveCursor

SpecStore == InitStore /\ [][NextStore]_vars

(***************************************************************************)
(* annotationsToStatuses (lines 181-204).  A Python string is a sequence   *)
(* of one-character strings; indices and slices are Python's, counted      *)
(* from 0.                                                                 *)
(***************************************************************************)

\* Longest single annotation given to annotationsToStatuses.
MaxLen == 4

\* Longest annotation in a list of two.
MaxPairLen == 1

\* Largest maxlen given to annotationsToStatuses.
MaxL == 3

\* The characters annotations are made of.
Alphabet == {"a", "b", " ", "\n", "\t"}

\* The characters str.strip() removes.
Whitespace == {" ", "\n", "\t", "\r", "\f"}

Strings(n) == UNION {[1..k -> Alphabet] : k \in 0..n}

pollerVars == <<latest, file, arg_since_id, arg_status_file, pc, since_id,
                status, mentions, idx, batch, out, result, err, fetched,
                handled, hw, hwFile, file0>>

\* No poller runs: a function of the module is called on its own.
ProcessIdle ==
    /\ file = Missing
    /\ file0 = Missing
    /\ arg_since_id = NoId
    /\ arg_status_file = FALSE
    /\ pc = "idle"
    /\ since_id = NoId
    /\ status = <<>>
    /\ mentions = <<>>
    /\ idx = 0
    /\ batch = {}
    /\ out = <<>>
    /\ result = "none"
    /\ err = "none"
    /\ fetched = {}
    /\ handled = {}
    /\ hw = NoId
    /\ hwFile = NoId

PollerIdle ==
    /\ latest = 0
    /\ ProcessIdle

\* s[:k]
Prefix(s, k) == SubSeq(s, 1, IF k < Len(s) THEN k ELSE Len(s))

\* s[k:]
Suffix(s, k) == SubSeq(s, k + 1, Len(s))

\* s.strip()
RECURSIVE LStrip(_)
LStrip(s) ==
    IF s # <<>> /\ Head(s) \in Whitespace THEN LStrip(Tail(s)) ELSE s

RECURSIVE RStrip(_)
RStrip(s) ==
    IF s # <<>> /\ s[Len(s)] \in Whitespace THEN RStrip(SubSeq(s, 1, Len(s) - 1)) ELSE s

Strip(s) == RStrip(LStrip(s))

\* s.rfind(c, 0, end): the highest index below end holding c, or -1.
RFind(s, c, end) ==
    LET hits == {i \in 0..(Len(s) - 1) : i < end /\ s[i + 1] = c}
    IN  IF hits = {} THEN -1 ELSE CHOOSE i \in hits : \A j \in hits : j <= i

Digit(d) == <<"0", "1", "2", "3", "4", "5", "6", "7", "8", "9">>[d + 1]

\* '{0}'.format(n) for n >= 0.
RECURSIVE Decimal(_)
Decimal(n) ==
    IF n < 10 THEN <<Digit(n)>> ELSE Decimal(n \div 10) \o <<Digit(n % 10)>>

\* 'Image {0}:\n{1}'.format(idx, txt) (line 184).
ImageHeader(i, txt) ==
    <<"I", "m", "a", "g", "e", " ">> \o Decimal(i) \o <<":", "\n">> \o txt

\* Lines 183-187.
Prefixed(as) ==
    IF Len(as) > 1 THEN [i \in 1..Len(as) |-> ImageHeader(i, as[i])] ELSE as

\* Lines 193-195: split_idx.
SplitIdxTooFar(a, n) ==
    IF RFind(a, "\n", n + 2) # -1 THEN RFind(a, "\n", n + 2) ELSE RFind(a, " ", n + 2)

SplitIdx(a, n) ==
    IF RFind(a, "\n", n + 1) # -1 THEN RFind(a, "\n", n + 1) ELSE RFind(a, " ", n + 1)

\* Lines 198 and 201: the chunk appended to result.
Chunk(a, n) ==
    IF SplitIdx(a, n) = -1 THEN Prefix(a, n) ELSE Prefix(a, SplitIdx(a, n))

\* Lines 199 and 202: what is left of annot.
RestDropsCharacter(a, n) ==
    IF SplitIdx(a, n) = -1 THEN Suffix(a, n + 1) ELSE Suffix(a, SplitIdx(a, n) + 1)

RestKeepsSeparator(a, n) ==
    IF SplitIdx(a, n) = -1 THEN Suffix(a, n) ELSE Suffix(a, SplitIdx(a, n))

Rest(a, n) ==
    IF SplitIdx(a, n) = -1 THEN Suffix(a, n) ELSE Suffix(a, SplitIdx(a, n) + 1)

\* The character a split consumed (none for a split in the middle of a word).
Consumed(a, n) ==
    IF SplitIdx(a, n) = -1 THEN <<>> ELSE <<a[SplitIdx(a, n) + 1]>>

\* The call: any list of one annotation, or of two short ones, any maxlen >= 1.
InitChunk ==
    /\ PollerIdle
    /\ saved = <<>>
    /\ ReplierIdle
    /\ texts \in {<<s>> : s \in Strings(MaxLen)}
                 \cup {<<s, t>> : s, t \in Strings(MaxPairLen)}
    /\ maxlen \in 1..MaxL
    /\ annotations = texts
    /\ ai = 0
    /\ annot = <<>>
    /\ statuses = <<>>
    /\ seps = <<>>
    /\ at = "call"

\* Lines 183-189.
PrefixImages ==
    /\ at = "call"
    /\ annotations' = Prefixed(annotations)
    /\ at' = "for"
    /\ UNCHANGED <<texts, maxlen, ai, annot, statuses, seps, saved>>
    /\ UNCHANGED replyVars
    /\ UNCHANGED pollerVars

\* Lines 190-191, and 204 when the list is used up.
NextAnnotation ==
    /\ at = "for"
    /\ IF ai < Len(annotations)
       THEN /\ ai' = ai + 1
            /\ annot' = Strip(annotations[ai + 1])
            /\ at' = "while"
       ELSE /\ at' = "returned"
            /\ UNCHANGED <<ai, annot>>
    /\ UNCHANGED <<texts, maxlen, annotations, statuses, seps, saved>>
    /\ UNCHANGED replyVars
    /\ UNCHANGED pollerVars

\* Lines 192-202: one iteration of the while loop.
Split ==
    /\ at = "while"
    /\ Len(annot) > maxlen
    /\ statuses' = Append(statuses, Chunk(annot, maxlen))
    /\ seps' = Append(seps, Consumed(annot, maxlen))
    /\ annot' = Rest(annot, maxlen)
    /\ UNCHANGED <<texts, maxlen, annotations, ai, at, saved>>
    /\ UNCHANGED replyVars
    /\ UNCHANGED pollerVars

\* Lines 192 and 203: the loop ends and what is left is appended.
Remainder ==
    /\ at = "while"
    /\ Len(annot) <= maxlen
    /\ statuses' = Append(statuses, annot)
    /\ seps' = Append(seps, <<>>)
    /\ at' = "for"
    /\ UNCHANGED <<texts, maxlen, annotations, ai, annot, saved>>
    /\ UNCHANGED replyVars
    /\ UNCHANGED pollerVars

NextChunk ==
    \/ PrefixImages
    \/ NextAnnotation
    \/ Split
    \/ Remainder

SpecChunk == InitChunk /\ [][NextChunk]_vars

(***************************************************************************)
(* createAnnotations (164-179), annotationsToStatuses as a function, and   *)
(* annotateTweet with postReply (206-240).                                 *)
(***************************************************************************)

\* maxlen of line 231.
StatusLen == 250

\* Most media entries the annotated tweet has.
MaxMedia == 2

\* Largest id of the mention annotateTweet is called for.
MaxMention == 1

\* ext_alt_text is None.
NoAlt == [has |-> FALSE, text |-> <<>>]

Alt(t) == [has |-> TRUE, text |-> t]

Letters(n) == [i \in 1..n |-> "a"]

\* Alt texts: the empty one; one that fits a reply; one a character too long;
\* one cut at the second of two spaces; one cut at a space and at a line break.
AltTexts ==
    { <<>>,
      <<"a", " ", "b">>,
      Letters(StatusLen + 1),
      Letters(StatusLen - 1) \o <<" ", " ", "b">>,
      Letters(200) \o <<" ">> \o Letters(200) \o <<"\n">> \o Letters(200) }

MediaEntries ==
    {[type |-> t, ext_alt_text |-> a] :
        t \in {"photo", "animated_gif"}, a \in {NoAlt} \cup {Alt(x) : x \in AltTexts}}
    \cup {[type |-> "video", ext_alt_text |-> NoAlt]}

MediaLists ==
    {NoMedia} \cup
    {[has |-> TRUE, items |-> l] : l \in UNION {[1..k -> MediaEntries] : k \in 0..MaxMedia}}

NoAltText ==
    <<"N", "o", " ", "a", "l", "t", " ", "t", "e", "x", "t", " ", ":", "'", "(">>

MissingAltText ==
    <<"M", "i", "s", "s", "i", "n", "g", " ", "a", "l", "t", " ", "t", "e", "x", "t">>

\* Line 171: the photos and animated GIFs of the tweet.
MediaImages(m) == SelectSeq(m.items, LAMBDA x : x.type \in {"animated_gif", "photo"})

\* Line 177: x or 'Missing alt text'.
AltOrMissing(a) == IF a.has /\ a.text # <<>> THEN a.text ELSE MissingAltText

\* The body of createAnnotations with the two tests of lines 172 and 175 swapped.
createAnnotationsSentinelFirst(m) ==
    IF ~m.has THEN <<>>
    ELSE IF \A i \in 1..Len(MediaImages(m)) : ~MediaImages(m)[i].ext_alt_text.has
    THEN <<NoAltText>>
    ELSE IF MediaImages(m) = <<>> THEN <<>>
    ELSE [i \in 1..Len(MediaImages(m)) |-> AltOrMissing(MediaImages(m)[i].ext_alt_text)]

\* createAnnotations: iterating over media = None raises TypeError (178-179).
createAnnotations(m) ==
    IF ~m.has THEN <<>>
    ELSE IF MediaImages(m) = <<>> THEN <<>>
    ELSE IF \A i \in 1..Len(MediaImages(m)) : ~MediaImages(m)[i].ext_alt_text.has
    THEN <<NoAltText>>
    ELSE [i \in 1..Len(MediaImages(m)) |-> AltOrMissing(MediaImages(m)[i].ext_alt_text)]

\* Lines 192-203 for one annotation.
RECURSIVE ChunksOf(_, _)
ChunksOf(a, n) ==
    IF Len(a) > n THEN <<Chunk(a, n)>> \o ChunksOf(Rest(a, n), n) ELSE <<a>>

\* Lines 189-204.
RECURSIVE ChunkAll(_, _)
ChunkAll(as, n) ==
    IF as = <<>> THEN <<>>
    ELSE ChunksOf(Strip(Head(as)), n) \o ChunkAll(Tail(as), n)

annotationsToStatuses(as, n) == ChunkAll(Prefixed(as), n)

\* respondToTweet.user.screen_name.
ScreenName == <<"u">>

\* Line 216: '@{user.screen_name} {text}'.
Addressed(text) == <<"@">> \o ScreenName \o <<" ">> \o text

\* Line 238: '{0} [{1}/{2}]'.format(status.strip(), idx, len(statuses)).
Numbered(st, i, n) ==
    Strip(st) \o <<" ", "[">> \o Decimal(i) \o <<"/">> \o Decimal(n) \o <<"]">>

\* The text annotateTweet gives postReply for chunk i of n (234, 238).
ReplyText(sts, i) ==
    IF Len(sts) = 1 THEN sts[1] ELSE Numbered(sts[i], i, Len(sts))

\* The tweet the next reply answers: line 234 drops what postReply returns,
\* line 239 keeps it.
KeepRespondTo(n, current, posted) == current

NextRespondTo(n, current, posted) == IF n = 1 THEN current ELSE posted

\* annotateTweet(twitterApi, respondToTweet, toAnnotate, self) is called.
InitReply ==
    /\ ProcessIdle
    /\ saved = <<>>
    /\ ChunkerIdle
    /\ media \in MediaLists
    /\ mention \in 1..MaxMention
    /\ latest \in mention..(mention + 1)
    /\ respondToTweet = mention
    /\ replies = <<>>
    /\ rat = "call"

\* Lines 224-233.
Annotate ==
    /\ rat = "call"
    /\ annotations' = createAnnotations(media)
    /\ IF Len(createAnnotations(media)) = 0
       THEN rat' = "returned" /\ statuses' = statuses
       ELSE /\ statuses' = annotationsToStatuses(createAnnotations(media), StatusLen)
            /\ rat' = "post"
    /\ UNCHANGED <<texts, maxlen, ai, annot, seps, at, saved, latest, media,
                   mention, respondToTweet, replies>>
    /\ UNCHANGED <<file, arg_since_id, arg_status_file, pc, since_id, status,
                   mentions, idx, batch, out, result, err, fetched, handled,
                   hw, hwFile, file0>>

\* One call of postReply (234 or 238-240): PostUpdate posts the reply and the
\* service gives it the next id.
PostReply ==
    /\ rat = "post"
    /\ Len(replies) < Len(statuses)
    /\ latest' = latest + 1
    /\ replies' = Append(replies,
                         [status |-> Addressed(ReplyText(statuses, Len(replies) + 1)),
                          in_reply_to_status_id |-> respondToTweet,
                          id |-> latest + 1])
    /\ respondToTweet' = NextRespondTo(Len(statuses), respondToTweet, latest + 1)
    /\ UNCHANGED <<texts, maxlen, annotations, ai, annot, statuses, seps, at,
                   saved, media, mention, rat>>
    /\ UNCHANGED <<file, arg_since_id, arg_status_file, pc, since_id, status,
                   mentions, idx, batch, out, result, err, fetched, handled,
                   hw, hwFile, file0>>

\* PostUpdate raises: the exception leaves annotateTweet.
PostFails ==
    /\ rat = "post"
    /\ Len(replies) < Len(statuses)
    /\ rat' = "raised"
    /\ UNCHANGED <<texts, maxlen, annotations, ai, annot, statuses, seps, at,
                   saved, media, mention, respondToTweet, replies>>
    /\ UNCHANGED pollerVars

\* The single reply, or the last of the chain, has been posted.
Return ==
    /\ rat = "post"
    /\ Len(replies) = Len(statuses)
    /\ rat' = "returned"
    /\ UNCHANGED <<texts, maxlen, annotations, ai, annot, statuses, seps, at,
                   saved, media, mention, respondToTweet, replies>>
    /\ UNCHANGED pollerVars

NextReply ==
    \/ Annotate
    \/ PostReply
    \/ PostFails
    \/ Return

SpecReply == InitReply /\ [][NextReply]_vars

(***************************************************************************)
(* Properties.                                                             *)
(***************************************************************************)
Ascending(s) == \A i, j \in 1..Len(s) : i < j => s[i] < s[j]

\* The process that ran before this step is still the one running after it.
SameProcess == Live /\ Live'

\* C1 as stated: neither the in-memory since_id of the running process nor the
\* since_id in the status file is ever smaller than a value it held earlier,
\* restarts from the status file included.
C1_CursorNeverDecreases ==
    /\ Live => since_id >= hw
    /\ file.kind = "json" => FileSinceId(file) >= hwFile

\* C1 amended: within one process the in-memory since_id never decreases; the
\* since_id of a complete status file never decreases, across restarts too; and
\* a process constructed from the status file starts at the stored since_id
\* (which may be smaller than the value the ended process held in memory).
C1_CursorMonotonic ==
    /\ [](file.kind = "json" => FileSinceId(file) >= hwFile)
    /\ [][SameProcess => since_id' >= since_id]_vars
    /\ [][pc = "start" /\ pc' = "fetch" => since_id' = hwFile]_vars

\* A process restarted after a crash runs from a stored cursor that an earlier
\* process advanced, below the value that process last held in memory.
C1_Witness == pc = "fetch" /\ since_id = hwFile /\ since_id > FileSinceId(file0) /\ since_id < hw

\* C2: at-least-once delivery.  A mention that a fetch returned and whose loop
\* body has not run is never permanently skipped: either the running process
\* still holds it in its batch, at or after the loop position, or it is newer
\* than the stored since_id, so that a restart fetches it again.
C2_AtLeastOnce ==
    \A m \in fetched \ handled :
        \/ Live /\ \E i \in 1..Len(mentions) : i >= idx /\ mentions[i] = m
        \/ m > FileSinceId(file)

\* C3: the mentions of one batch are yielded in ascending identifier order,
\* whatever order the API returned them in, and once the whole batch has been
\* yielded the cursor is the largest identifier of the batch.
C3_BatchInOrder ==
    /\ Ascending(out)
    /\ Range(out) \subseteq batch
    /\ (pc = "next" /\ idx = Len(mentions) /\ batch # {}) =>
           /\ Range(out) = batch
           /\ Len(out) = Cardinality(batch)
           /\ since_id = SetMax(batch)

\* A batch of two or more mentions has been yielded to its end.
C3_Witness == pc = "next" /\ idx = Len(mentions) /\ Len(out) >= 2 /\ Range(out) = batch

\* C4: per mention the cursor is set, then written to the status file, then
\* the mention is handed over: while the loop body holds mention e (a status
\* file being configured) the stored since_id is e.id; the write happens with
\* the cursor already set; the hand-over follows the write; and the cursor and
\* the file stay as they are until the consumer asks for the next mention.
C4_SaveBeforeHandOver ==
    /\ []((pc = "consume" /\ arg_status_file) =>
             /\ file.kind = "json"
             /\ FileSinceId(file) = mentions[idx]
             /\ since_id = mentions[idx])
    /\ [](pc \in {"open", "dump"} => since_id = mentions[idx])
    /\ [][(pc' = "consume" /\ pc # "consume" /\ arg_status_file) => pc = "dump"]_vars
    /\ [][(pc = "consume" /\ pc' # "start") => (since_id' = since_id /\ file' = file)]_vars

\* The loop body holds the second mention of a batch, with a status file.
C4_Witness == pc = "consume" /\ arg_status_file /\ idx >= 2 /\ handled # {}

C6_AtomicSave == [][(pc \in {"open", "dump"} /\ pc' = "start") => file'.kind = "json"]_vars

\* C7: the members of the status record other than since_id stay as they were
\* before the first run, however Mentions was constructed.
C7_OtherFieldsPreserved ==
    (file.kind = "json" /\ file0.kind = "json") =>
        Others(file.members) = Others(file0.members)

\* C8: a failed fetch does not end the poller.
C8_FetchFailureRetried == ~(pc = "dead" /\ err = "fetch")

\* C9: a failed write of the status file does not end the poller.
C9_SaveFailureNotFatal == ~(pc = "dead" /\ err = "save")

\* C10: however the loop body ends for a mention, by a failure or not, the
\* generator is resumed at the head of its for loop with the cursor, the
\* in-memory record, the status file and the rest of the batch untouched: a
\* failure never reaches the poller, whose later steps are those of a success.
C10_PipelineFailureContained ==
    [][(pc = "consume" /\ pc' \notin {"consume", "start"}) =>
           /\ pc' = "next"
           /\ UNCHANGED <<since_id, status, file, mentions, idx, batch, out, err>>]_vars

\* The loop body holds a mention after it failed for the one before it.
C10_Witness == pc = "consume" /\ idx >= 2 /\ result = "failed"

\* C11: constructing Mentions from the status file gives an unset cursor, not
\* an error, when the status file does not exist, as it does when the stored
\* record has no since_id member.
C11_MissingFileLoadsUnset == ~(pc = "dead" /\ err = "load" /\ file.kind = "missing")

\* The mentions that have been yielded to the consumer.
Emitted == handled \cup (IF pc = "consume" THEN {mentions[idx]} ELSE {})

\* C12: after any sequence of saves, in any order, the status file holds the
\* largest of the values saved.
C12_StoredIsMaxOfSaved ==
    saved # <<>> => FileSinceId(file) = SetMax(Range(saved))

\* C13: every chunk annotationsToStatuses has appended to its result is at
\* most maxlen characters long, whatever the annotations and maxlen >= 1.
C13_ChunksWithinMaxlen ==
    \A i \in 1..Len(statuses) : Len(statuses[i]) <= maxlen

\* A single annotation has been chunked with a split in the middle of a word.
C13_Witness ==
    /\ at = "returned"
    /\ Len(texts) = 1
    /\ \E i \in 1..(Len(statuses) - 1) : seps[i] = <<>> /\ Len(statuses[i]) = maxlen

\* The chunks joined in order, each followed by what the split after it consumed.
RECURSIVE Joined(_, _)
Joined(chunks, ss) ==
    IF chunks = <<>> THEN <<>>
    ELSE Head(chunks) \o Head(ss) \o Joined(Tail(chunks), Tail(ss))

\* C14: for a single annotation S, the chunks joined in order, with the one
\* space or line break each split consumed put back at its boundary and
\* nothing at a split in the middle of a word, are S.strip(): at every point
\* of the loop the chunks so far and the text left make up S.strip().
C14_RoundTrip ==
    Len(texts) = 1 =>
        /\ at = "while" => Joined(statuses, seps) \o annot = Strip(texts[1])
        /\ at = "returned" =>
              /\ Joined(statuses, seps) = Strip(texts[1])
              /\ \A i \in 1..Len(seps) : seps[i] \in {<<>>, <<" ">>, <<"\n">>}
              /\ seps[Len(seps)] = <<>>

\* A single annotation has been chunked with a split at a space or line break
\* and a split in the middle of a word.
C14_Witness ==
    /\ at = "returned"
    /\ Len(texts) = 1
    /\ \E i, j \in 1..(Len(statuses) - 1) : seps[i] # <<>> /\ seps[j] = <<>>

\* C18: no chunk begins or ends with a space or a line break.
C18_ChunksTrimmed ==
    \A i \in 1..Len(statuses) :
        statuses[i] # <<>> =>
            /\ Head(statuses[i]) \notin {" ", "\n"}
            /\ statuses[i][Len(statuses[i])] \notin {" ", "\n"}

\* C19: annotationsToStatuses terminates: every iteration of the while loop
\* leaves annot strictly shorter, and until the function has returned it has a
\* next step.
C19_SplitShortens ==
    /\ [][(at = "while" /\ at' = "while") => Len(annot') < Len(annot)]_vars
    /\ [](at \in {"call", "for", "while"} => ENABLED NextChunk)

\* The split just made was at index 0 of the text left: the chunk is empty and
\* a space or line break was consumed.
C19_Witness ==
    /\ at = "while"
    /\ statuses # <<>>
    /\ statuses[Len(statuses)] = <<>>
    /\ seps[Len(seps)] # <<>>

\* C15: in a chain of N > 1 replies the first reply answers the triggering
\* mention, reply i+1 answers the tweet the post of reply i returned, and the
\* replies are posted in chunk order.
C15_ChainThreaded ==
    (rat \in {"post", "returned", "raised"} /\ Len(statuses) > 1) =>
        /\ Len(replies) <= Len(statuses)
        /\ \A i \in 1..Len(replies) :
              /\ replies[i].in_reply_to_status_id =
                    (IF i = 1 THEN mention ELSE replies[i - 1].id)
              /\ replies[i].status = Addressed(ReplyText(statuses, i))

C15_Witness ==
    /\ rat = "returned"
    /\ Len(statuses) >= 3
    /\ Len(replies) = Len(statuses)
    /\ replies[1].id # mention

C17_NoImagesNoReply ==
    (rat # "call" /\ (~media.has \/ MediaImages(media) = <<>>)) =>
        /\ annotations = <<>>
        /\ replies = <<>>
        /\ rat = "returned"

C17_Witness ==
    /\ rat = "returned"
    /\ media.has
    /\ Len(media.items) > 0
    /\ MediaImages(media) = <<>>
    /\ replies = <<>>

\* C20: no pending mention is skipped for good when a fetch returns a full
\* batch: while the running process works on a batch of MaxCount mentions,
\* every mention newer than the starting cursor that has not been yielded is
\* either still ahead in the batch or newer than the cursor, so that a later
\* fetch can return it.
C20_NoPendingSkipped ==
    (Live /\ Cardinality(batch) = MaxCount) =>
        \A m \in 1..latest :
            (m > FileSinceId(file0) /\ m \notin Emitted) =>
                \/ m > since_id
                \/ \E i \in 1..Len(mentions) : i >= idx /\ mentions[i] = m


=============================================================================
